---- MODULE Spec2Model ----
(***************************************************************************)
(* Actor-learner pipeline of agents/mc_agent.py (MCAgent and actor_worker):*)
(* actor worker processes, the three bounded queues, the batch-assembler   *)
(* threads (_prepare_batch), the learner loop (learn) and the curriculum   *)
(* update (_update_curriculum_difficulty).                                 *)
(*                                                                         *)
(* Real-valued quantities (discount, returns, the exploration rate, the    *)
(* winning-rate threshold) are exact rationals <<numerator, denominator>>  *)
(* in lowest terms with a positive denominator.                            *)
(***************************************************************************)
EXTENDS Integers, Sequences, FiniteSets, TLC

VARIABLES
    cfg,                \* constructor / learn() arguments, fixed after Init
    transition_queue,   \* multiprocessing.Queue of (observation, action, cum_return)
    outcome_queue,      \* multiprocessing.Queue of episode returns
    batch_queue,        \* queue.Queue of batches
    cur_difficulty_idx, \* multiprocessing.Value('i')
    current_eps,        \* multiprocessing.Value('d')
    recent_outcomes,    \* deque(maxlen=...) owned by the learner
    q_network,          \* trainable parameters (a version number)
    target_q_network,   \* parameters shared with the actors: the version each
                        \* parameter tensor holds
    actor,              \* per actor process: locals of actor_worker
    thread,             \* per assembler thread: locals of _prepare_batch
    learner,            \* locals of learn / _update_curriculum_difficulty, and
                        \* n_absorbed: outcomes appended in the current update,
                        \* n_pulled: batches taken, error: what learn() raised
    absorbed,           \* history: outcomes appended since the window was last cleared
    drained,            \* history: per thread, the observations of the transitions it took, in order
    emitted,            \* history: the observations of the transitions the actors have put
    eps_arg,            \* argument of the last _get_current_eps evaluation (-1: none yet)
    eps_ret,            \* its result
    act_arg,            \* arguments of an evaluation of act (observation, eps)
    act_ret,            \* the action it returned (-1: not evaluated)
    saved_models,       \* the step counts in the names of the checkpoints written, in order
    outcome_levels      \* history: the difficulty of the episode behind each entry of
                        \* outcome_queue (.queue) and of recent_outcomes (.window)

vars == <<cfg, transition_queue, outcome_queue, batch_queue, cur_difficulty_idx,
          current_eps, recent_outcomes, q_network, target_q_network, actor,
          thread, learner, absorbed, drained, emitted, eps_arg, eps_ret,
          act_arg, act_ret, saved_models, outcome_levels>>

-----------------------------------------------------------------------------
(* Bounds of the model.  The queue capacities, the window length and the   *)
(* number of assembler threads are 128 / 200000 / 8 / 1000 / 4 in the      *)
(* source; the model keeps their roles and scales the values down.         *)

TransitionQueueSize == 2    \* multiprocessing.Queue(128)
OutcomeQueueSize == 2       \* multiprocessing.Queue(200000)
BatchQueueSize == 1         \* queue.Queue(8)
maxlen == 2                 \* deque(maxlen=1000)
num_threads == 2            \* self._num_threads = 4
MaxEpisodes == 2            \* episodes one actor plays in a run
MaxFrames == 2              \* frames of the longest episode
MaxSteps == 2               \* learner steps in a run
CurriculumSteps == 3        \* learner steps in a run of the curriculum
CurriculumEpisodes == 4     \* episodes of the actor in a run of the curriculum
MaxReturnFrames == 4        \* longest episode of the return-labelling runs
MaxEpsSteps == 260          \* largest step count given to the schedule
NumParams == 2              \* parameter tensors of the network
NumActions == 3             \* actions of the action space given to act
MaxQ == 1                   \* largest magnitude of an action-value
MaxSaveSteps == 4           \* learner steps in a run that writes checkpoints

ActionSpace == {0}
None == "None"

-----------------------------------------------------------------------------
(* Exact rational arithmetic.                                              *)

Abs(x) == IF x < 0 THEN -x ELSE x

RECURSIVE Gcd(_, _)
Gcd(a, b) == IF b = 0 THEN a ELSE Gcd(b, a % b)

Rat(n, d) ==
    LET g == Gcd(Abs(n), Abs(d))
        s == IF d < 0 THEN -1 ELSE 1
    IN  <<(s * n) \div g, (s * d) \div g>>

RAdd(x, y) == Rat(x[1] * y[2] + y[1] * x[2], x[2] * y[2])
RSub(x, y) == Rat(x[1] * y[2] - y[1] * x[2], x[2] * y[2])
RMul(x, y) == Rat(x[1] * y[1], x[2] * y[2])
RDivInt(x, n) == Rat(x[1], x[2] * n)
RInt(n) == <<n, 1>>
RLt(x, y) == x[1] * y[2] < y[1] * x[2]
RLe(x, y) == x[1] * y[2] <= y[1] * x[2]

-----------------------------------------------------------------------------
(* Containers.                                                             *)

Max(a, b) == IF a > b THEN a ELSE b

\* DequeAppend with a seeded fault: the deque never evicts.
DequeAppend_NoEviction(d, x, n) == Append(d, x)

\* collections.deque(maxlen=n).append(x): a full deque drops its oldest entry.
DequeAppend(d, x, n) ==
    IF n = 0 THEN <<>>
    ELSE IF Len(d) = n THEN Append(Tail(d), x)
    ELSE Append(d, x)

\* PutEnabled with a seeded fault: a put never waits.
PutEnabled_NeverBlocks(q, size) == TRUE

\* QueueRest with a seeded fault: get returns the head and leaves it in the queue.
QueueRest_Peek(q) == q

\* Queue.put(item) returns only when the queue holds fewer than `size` items.
PutEnabled(q, size) == Len(q) < size

\* Queue.get() returns only when the queue holds an item; it removes the head.
GetEnabled(q) == Len(q) > 0
QueueHead(q) == Head(q)
QueueRest(q) == Tail(q)

SeqSum(s) ==
    LET RECURSIVE Sum(_)
        Sum(i) == IF i = 0 THEN RInt(0) ELSE RAdd(Sum(i - 1), s[i])
    IN  Sum(Len(s))

\* RandomSample with a seeded fault: positions are drawn with replacement.
RandomSample_WithReplacement(population, k) == [1..k -> 1..Len(population)]

\* random.sample(population, k): k entries at pairwise distinct positions, in any
\* order.  The result is the set of position sequences the call can return.
RandomSample(population, k) ==
    {p \in [1..k -> 1..Len(population)] :
        \A i, j \in 1..k : i # j => p[i] # p[j]}

-----------------------------------------------------------------------------
(* Derived configuration (MCAgent.__init__ and _prepare_batch).            *)

\* self._init_memory_size = max(init_memory_size, batch_size)
init_memory_size == Max(cfg.init_memory_size, cfg.batch_size)

\* MemoryCapacity with a seeded fault: the share is rounded up.
MemoryCapacity_RoundedUp == (cfg.memory_size + num_threads - 1) \div num_threads

\* deque(maxlen=int(self._memory_size / self._num_threads))
MemoryCapacity == cfg.memory_size \div num_threads

\* frame_step_ratio is the rational <<n, d>>; < 1 iff n < d.
RatioBelowOne == cfg.frame_step_ratio[1] < cfg.frame_step_ratio[2]
steps_per_frame == cfg.frame_step_ratio[2] \div cfg.frame_step_ratio[1]
frames_per_step == cfg.frame_step_ratio[1] \div cfg.frame_step_ratio[2]

\* WarmedUp with a seeded fault: the threshold is not scaled by the warm-up count.
WarmedUp_AnyEntry(memory) == Len(memory) > 0

\* not (len(memory) < self._init_memory_size / self._num_threads)
WarmedUp(memory) == ~(Len(memory) * num_threads < init_memory_size)

Actors == 0..(cfg.num_actor_workers - 1)
Threads == 0..(num_threads - 1)

-----------------------------------------------------------------------------
(* Pure functions of the agent.                                            *)

\* ReturnStep with a seeded fault: the reward is added before the discount is applied.
ReturnStep_DiscountsReward(cum_return, discount, reward) ==
    RMul(RAdd(cum_return, RInt(reward)), discount)

\* cum_return = cum_return * discount + reward
ReturnStep(cum_return, discount, reward) ==
    RAdd(RMul(cum_return, discount), RInt(reward))

\* winning_rate = (float(sum(recent_outcomes)) / len(recent_outcomes) + 1.0) / 2.0
winning_rate(outcomes) ==
    RDivInt(RAdd(RDivInt(SeqSum(outcomes), Len(outcomes)), RInt(1)), 2)

\* ShouldAdvance with a seeded fault: the test for a remaining higher level is missing.
ShouldAdvance_NoLevelTest(has_new_outcome, outcomes, idx) ==
    /\ has_new_outcome
    /\ Len(outcomes) = maxlen
    /\ RLe(cfg.winning_rate_threshold, winning_rate(outcomes))

\* ShouldAdvance with a seeded fault: the win rate must exceed the threshold.
ShouldAdvance_StrictThreshold(has_new_outcome, outcomes, idx) ==
    /\ has_new_outcome
    /\ Len(outcomes) = maxlen
    /\ RLt(cfg.winning_rate_threshold, winning_rate(outcomes))
    /\ Len(cfg.difficulties) > idx + 1

\* The test of _update_curriculum_difficulty that guards the advance.
ShouldAdvance(has_new_outcome, outcomes, idx) ==
    /\ has_new_outcome
    /\ Len(outcomes) = maxlen
    /\ RLe(cfg.winning_rate_threshold, winning_rate(outcomes))
    /\ Len(cfg.difficulties) > idx + 1

EpsFloor == <<1, 100>>

\* get_current_eps with a seeded fault: the second phase counts from step 0.
get_current_eps_NoOffset(steps) ==
    IF steps < cfg.eps_decay
    THEN RSub(cfg.eps_start,
              RDivInt(RMul(RSub(cfg.eps_start, cfg.eps_end), RInt(steps)),
                      cfg.eps_decay))
    ELSE IF steps < cfg.eps_decay2
    THEN RSub(cfg.eps_end,
              RDivInt(RMul(RSub(cfg.eps_end, EpsFloor), RInt(steps)),
                      cfg.eps_decay2))
    ELSE EpsFloor

\* _get_current_eps for eps_method == 'linear'.
get_current_eps(steps) ==
    IF steps < cfg.eps_decay
    THEN RSub(cfg.eps_start,
              RDivInt(RMul(RSub(cfg.eps_start, cfg.eps_end), RInt(steps)),
                      cfg.eps_decay))
    ELSE IF steps < cfg.eps_decay2
    THEN RSub(cfg.eps_end,
              RDivInt(RMul(RSub(cfg.eps_end, EpsFloor), RInt(steps - cfg.eps_decay)),
                      cfg.eps_decay2))
    ELSE EpsFloor

-----------------------------------------------------------------------------
(* Action selection: act of actor_worker (lines 53-75) and MCAgent.act     *)
(* (lines 207-230), which differ only in the network they query.  The      *)
(* network's output is any vector of finite action-values.                  *)

Actions == 0..(NumActions - 1)          \* action_space.n actions
QValues == (0 - MaxQ)..MaxQ             \* finite action-values
NegInf == 0 - (MaxQ + 1)                \* float('-inf'): below every finite value
Masks == [Actions -> {0, 1}]
QVectors == [Actions -> QValues]
NoMask == [a \in Actions |-> 1]

\* Line 54 / 208: random.uniform(0, 1) >= eps, u being the number drawn.
Exploits(eps, u) == RLe(eps, u)

\* MaskedQ with a seeded fault: the mask is not applied.
MaskedQ_Unmasked(q, action_mask) == q

\* Lines 66-67 / 221-222: q[action_mask == 0] = float('-inf')
MaskedQ(q, action_mask) ==
    [a \in Actions |-> IF action_mask[a] = 0 THEN NegInf ELSE q[a]]

\* Line 68 / 223: q.data.max(1)[1][0], the index of a largest entry.
ArgMax(q) == {a \in Actions : \A b \in Actions : q[b] <= q[a]}

\* np.nonzero(action_mask)[0], lines 73 / 228.
Nonzero(action_mask) == {a \in Actions : action_mask[a] # 0}

\* MaskDiscrete.sample(availables) of envs/space.py: a uniform draw from the
\* valid actions it is given.
MaskDiscreteSample(availables) == availables

\* Discrete.sample(): any action of the space.
DiscreteSample == Actions

\* The actions act can return for one observation (its mask, if the space is
\* a MaskDiscrete, and the action-values q the network gives it), exploration
\* rate eps and number u drawn.
act(has_mask, action_mask, q, eps, u) ==
    IF Exploits(eps, u)
    THEN ArgMax(IF has_mask THEN MaskedQ(q, action_mask) ELSE q)
    ELSE IF has_mask THEN MaskDiscreteSample(Nonzero(action_mask))
         ELSE DiscreteSample

EpsValues == {RInt(0), Rat(1, 2), RInt(1)}
UniformDraws == {RInt(0), Rat(1, 2), Rat(9, 10)}    \* random.uniform(0, 1)

NoCall == [has_mask |-> FALSE, action_mask |-> NoMask,
           q |-> [a \in Actions |-> 0], eps |-> RInt(0), u |-> RInt(0)]

\* The arguments and draws of one evaluation of act: the space is maskable or
\* not, the observation's mask, the action-values, the exploration rate and
\* the number drawn.
ActCalls ==
    {[has_mask |-> has_mask, action_mask |-> action_mask, q |-> q,
      eps |-> eps, u |-> u] :
        has_mask \in BOOLEAN, action_mask \in Masks, q \in QVectors,
        eps \in EpsValues, u \in UniformDraws}

\* One evaluation of act, on the arguments act_arg.  (With an empty list of
\* valid actions the exploration branch has nothing to return.)
Act ==
    /\ act_ret = -1
    /\ act_ret' \in act(act_arg.has_mask, act_arg.action_mask, act_arg.q,
                        act_arg.eps, act_arg.u)
    /\ UNCHANGED <<cfg, transition_queue, outcome_queue, batch_queue,
                   cur_difficulty_idx, current_eps, recent_outcomes, q_network,
                   target_q_network, actor, thread, learner, absorbed, drained,
                   emitted, eps_arg, eps_ret, act_arg,
                   saved_models, outcome_levels>>

-----------------------------------------------------------------------------
(* Actor worker process (actor_worker).                                    *)

\* Lines 79-91: a new episode.  The level is read from the shared index once.
ActorStartEpisode(pid) ==
    /\ actor[pid].pc = "start"
    /\ actor[pid].episode_id < cfg.max_episodes
    /\ \E level \in 1..Len(cfg.difficulties) :
          /\ cfg.use_curriculum => level = cur_difficulty_idx + 1
          /\ actor' = [actor EXCEPT ![pid] =
                 [@ EXCEPT !.pc = "step",
                           !.episode_id = @ + 1,
                           !.cum_return = RInt(0),
                           !.cur_difficulty = cfg.difficulties[level],
                           !.transitions = <<>>,
                           !.k = 0]]
    /\ UNCHANGED <<cfg, transition_queue, outcome_queue, batch_queue,
                   cur_difficulty_idx, current_eps, recent_outcomes, q_network,
                   target_q_network, thread, learner, absorbed, drained, emitted,
                   eps_arg, eps_ret,
                   act_arg, act_ret,
                   saved_models, outcome_levels>>

\* Lines 92-97: one frame.  The environment chooses the reward and whether the
\* episode is over; the observation of a frame is identified by
\* <<pid, episode_id, frame>>.
ActorStep(pid) ==
    /\ actor[pid].pc = "step"
    /\ \E action \in ActionSpace, reward \in cfg.env_rewards, done \in BOOLEAN :
          LET n_frames == Len(actor[pid].transitions)
              observation == <<pid, actor[pid].episode_id, n_frames>>
          IN  /\ (n_frames + 1 = cfg.env_max_frames) => done
              /\ actor' = [actor EXCEPT ![pid] =
                     [@ EXCEPT !.transitions =
                                   Append(@, [observation |-> observation,
                                              action |-> action,
                                              reward |-> reward]),
                               !.pc = IF done THEN "label" ELSE "step"]]
    /\ UNCHANGED <<cfg, transition_queue, outcome_queue, batch_queue,
                   cur_difficulty_idx, current_eps, recent_outcomes, q_network,
                   target_q_network, thread, learner, absorbed, drained, emitted,
                   eps_arg, eps_ret,
                   act_arg, act_ret,
                   saved_models, outcome_levels>>

\* ReversedEntry with a seeded fault: the trajectory is walked forwards.
ReversedEntry_Forwards(transitions, k) == transitions[k + 1]

\* Line 98: entry number k (from 0) of reversed(transitions).
ReversedEntry(transitions, k) == transitions[Len(transitions) - k]

\* Lines 98-100: the next entry of reversed(transitions) is labelled and put;
\* the put returns only when the transition queue has room.
ActorPutTransition(pid) ==
    /\ actor[pid].pc = "label"
    /\ PutEnabled(transition_queue, TransitionQueueSize)
    /\ LET a == actor[pid]
           T == Len(a.transitions)
           entry == ReversedEntry(a.transitions, a.k)
           G == ReturnStep(a.cum_return, cfg.discount, entry.reward)
           item == [observation |-> entry.observation,
                    action |-> entry.action,
                    cum_return |-> G]
       IN  /\ transition_queue' = Append(transition_queue, item)
           /\ emitted' = emitted \cup {item.observation}
           /\ actor' = [actor EXCEPT ![pid] =
                  [@ EXCEPT !.cum_return = G,
                            !.k = @ + 1,
                            !.pc = IF a.k + 1 = T THEN "outcome" ELSE "label"]]
    /\ UNCHANGED <<cfg, outcome_queue, batch_queue, cur_difficulty_idx,
                   current_eps, recent_outcomes, q_network, target_q_network,
                   thread, learner, absorbed, drained, eps_arg, eps_ret,
                   act_arg, act_ret,
                   saved_models, outcome_levels>>

\* ActorPutOutcome with a seeded fault: the actor moves the shared difficulty
\* index on by itself.
ActorPutOutcome_BumpsIndex(pid) ==
    /\ actor[pid].pc = "outcome"
    /\ PutEnabled(outcome_queue, OutcomeQueueSize)
    /\ outcome_queue' = Append(outcome_queue, actor[pid].cum_return)
    /\ outcome_levels' = [outcome_levels EXCEPT
                              !.queue = Append(@, actor[pid].cur_difficulty)]
    /\ cur_difficulty_idx' = IF cur_difficulty_idx + 1 < Len(cfg.difficulties)
                             THEN cur_difficulty_idx + 1 ELSE cur_difficulty_idx
    /\ actor' = [actor EXCEPT ![pid].pc = "start"]
    /\ UNCHANGED <<cfg, transition_queue, batch_queue,
                   current_eps, recent_outcomes, q_network, target_q_network,
                   thread, learner, absorbed, drained, emitted, eps_arg, eps_ret,
                   act_arg, act_ret, saved_models>>

\* Lines 101-107: the episode's return goes on the outcome queue.  (The
\* history notes the difficulty the episode was played at.)
ActorPutOutcome(pid) ==
    /\ actor[pid].pc = "outcome"
    /\ PutEnabled(outcome_queue, OutcomeQueueSize)
    /\ outcome_queue' = Append(outcome_queue, actor[pid].cum_return)
    /\ outcome_levels' = [outcome_levels EXCEPT
                              !.queue = Append(@, actor[pid].cur_difficulty)]
    /\ actor' = [actor EXCEPT ![pid].pc = "start"]
    /\ UNCHANGED <<cfg, transition_queue, batch_queue, cur_difficulty_idx,
                   current_eps, recent_outcomes, q_network, target_q_network,
                   thread, learner, absorbed, drained, emitted, eps_arg, eps_ret,
                   act_arg, act_ret, saved_models>>

\* A fault inside an episode: env_create_fn or env.reset (lines 87-88) or act
\* or env.step (lines 93-94) raises.  Lines 77-107 hold no try/except, so the
\* exception leaves actor_worker and the process ends.
ActorFault(pid) ==
    /\ actor[pid].pc \in {"start", "step"}
    /\ actor[pid].pc = "start" => actor[pid].episode_id < cfg.max_episodes
    /\ actor' = [actor EXCEPT ![pid].pc = "dead"]
    /\ UNCHANGED <<cfg, transition_queue, outcome_queue, batch_queue,
                   cur_difficulty_idx, current_eps, recent_outcomes, q_network,
                   target_q_network, thread, learner, absorbed, drained, emitted,
                   eps_arg, eps_ret, act_arg, act_ret,
                   saved_models, outcome_levels>>

-----------------------------------------------------------------------------------------------------------------------------------------------------
(* Batch assembler thread (_prepare_batch).  An action runs the thread     *)
(* from one blocking queue call to the next; what the loop does between    *)
(* them touches only the thread's own locals.  thread[tid].steps holds     *)
(* steps modulo steps_per_frame, the only way the code reads the counter.  *)

\* Lines 354-374: zip(*transitions), the batch as three columns.
transitions_to_batch(transitions) ==
    [obs_batch |-> [i \in 1..Len(transitions) |-> transitions[i].observation],
     action_batch |-> [i \in 1..Len(transitions) |-> transitions[i].action],
     value_batch |-> [i \in 1..Len(transitions) |-> transitions[i].cum_return]]

\* The thread holds no batch.
NoBatch == transitions_to_batch(<<>>)

\* Lines 349-352 up to the put: the warm-up test, then random.sample, which
\* raises ValueError (ending the thread) when the memory holds fewer than
\* batch_size entries.  Result: what the thread can do next with this memory.
SampleBatch(memory) ==
    IF ~WarmedUp(memory) THEN {[pc |-> "top", batch |-> NoBatch]}
    ELSE IF cfg.batch_size > Len(memory) THEN {[pc |-> "dead", batch |-> NoBatch]}
    ELSE {[pc |-> "put",
           batch |-> transitions_to_batch([i \in 1..cfg.batch_size |-> memory[p[i]]])] :
              p \in RandomSample(memory, cfg.batch_size)}

\* Lines 341-343 and 345-347: the number of transitions the iteration that
\* follows counter value `steps` takes from the transition queue.
FramesWanted(steps) ==
    IF RatioBelowOne
    THEN (IF (steps + 1) % steps_per_frame = 0 THEN 1 ELSE 0)
    ELSE frames_per_step

\* The loop of lines 340-352 from the top of an iteration to its next blocking
\* call: the thread records it can be in there.
RECURSIVE RunToBlock(_)
RunToBlock(t) ==
    LET steps == IF RatioBelowOne THEN (t.steps + 1) % steps_per_frame ELSE 0
        need == FramesWanted(t.steps)
    IN  IF need > 0
        THEN {[t EXCEPT !.steps = steps, !.remaining = need, !.pc = "get"]}
        ELSE UNION {IF r.pc = "top"
                    THEN RunToBlock([t EXCEPT !.steps = steps])
                    ELSE {[t EXCEPT !.steps = steps, !.pc = r.pc, !.batch = r.batch]} :
                    r \in SampleBatch(t.memory)}

\* After the last get of an iteration: lines 349-352, then on to the next
\* blocking call.
AfterFrames(t) ==
    UNION {IF r.pc = "top"
           THEN RunToBlock(t)
           ELSE {[t EXCEPT !.pc = r.pc, !.batch = r.batch]} :
           r \in SampleBatch(t.memory)}

\* Lines 334-340: the thread starts with an empty memory.
ThreadStart(tid) ==
    /\ thread[tid].pc = "start"
    /\ \E t \in RunToBlock(thread[tid]) : thread' = [thread EXCEPT ![tid] = t]
    /\ UNCHANGED <<cfg, transition_queue, outcome_queue, batch_queue,
                   cur_difficulty_idx, current_eps, recent_outcomes, q_network,
                   target_q_network, actor, learner, absorbed, drained, emitted,
                   eps_arg, eps_ret,
                   act_arg, act_ret,
                   saved_models, outcome_levels>>

\* memory.append(self._transition_queue.get()), lines 344 and 348.
ThreadGet(tid) ==
    /\ thread[tid].pc = "get"
    /\ GetEnabled(transition_queue)
    /\ LET item == QueueHead(transition_queue)
           got == [thread[tid] EXCEPT
                       !.memory = DequeAppend(@, item, MemoryCapacity),
                       !.remaining = @ - 1]
       IN  /\ transition_queue' = QueueRest(transition_queue)
           /\ drained' = [drained EXCEPT ![tid] = Append(@, item.observation)]
           /\ \E t \in (IF got.remaining > 0 THEN {got} ELSE AfterFrames(got)) :
                  thread' = [thread EXCEPT ![tid] = t]
    /\ UNCHANGED <<cfg, outcome_queue, batch_queue, cur_difficulty_idx,
                   current_eps, recent_outcomes, q_network, target_q_network,
                   actor, learner, absorbed, emitted, eps_arg, eps_ret,
                   act_arg, act_ret,
                   saved_models, outcome_levels>>

\* Line 352: the batch goes on the batch queue once it has room.
ThreadPutBatch(tid) ==
    /\ thread[tid].pc = "put"
    /\ PutEnabled(batch_queue, BatchQueueSize)
    /\ batch_queue' = Append(batch_queue, thread[tid].batch)
    /\ \E t \in RunToBlock([thread[tid] EXCEPT !.batch = NoBatch]) :
           thread' = [thread EXCEPT ![tid] = t]
    /\ UNCHANGED <<cfg, transition_queue, outcome_queue, cur_difficulty_idx,
                   current_eps, recent_outcomes, q_network, target_q_network,
                   actor, learner, absorbed, drained, emitted, eps_arg, eps_ret,
                   act_arg, act_ret,
                   saved_models, outcome_levels>>

-----
(* Learner loop (learn) with _update_curriculum_difficulty and _optimize.  *)

\* The kinds the constructor (lines 192-205), _optimize (lines 268-273) and
\* _get_current_eps (lines 388-402) recognise; any other raises
\* NotImplementedError where the kind is looked at.
OptimizerTypes == {"rmsprop", "adam", "sgd"}
LossTypes == {"smooth_l1", "mse"}
EpsMethods == {"exponential", "linear"}

\* SyncDue with a seeded fault: the sync comes one iteration late.
SyncDue_Late(steps) == steps % cfg.target_update_freq = 1 % cfg.target_update_freq

\* Line 238: steps % self._target_update_freq == 0
SyncDue(steps) == steps % cfg.target_update_freq = 0

\* PublishEps with a seeded fault: the rate of the iteration before is
\* published.
PublishEps_Stale ==
    IF cfg.eps_method \in EpsMethods
    THEN /\ current_eps' = get_current_eps(IF learner.steps = 0
                                            THEN 0 ELSE learner.steps - 1)
         /\ learner' = [learner EXCEPT !.has_new_outcome = FALSE, !.n_absorbed = 0,
                                       !.i = 0, !.pc = "drain"]
    ELSE /\ UNCHANGED current_eps
         /\ learner' = [learner EXCEPT !.i = 0, !.pc = "raised",
                                       !.error = "eps_method"]

\* Lines 240-241 and 317: the exploration rate of this iteration is computed
\* and published, then the curriculum update is entered.  _get_current_eps
\* raises on an unrecognised eps_method (line 401), which ends learn().  (The
\* model computes the linear schedule; no initial state draws "exponential".)
PublishEps ==
    IF cfg.eps_method \in EpsMethods
    THEN /\ current_eps' = get_current_eps(learner.steps)
         /\ learner' = [learner EXCEPT !.has_new_outcome = FALSE, !.n_absorbed = 0,
                                       !.i = 0, !.pc = "drain"]
    ELSE /\ UNCHANGED current_eps
         /\ learner' = [learner EXCEPT !.i = 0, !.pc = "raised",
                                       !.error = "eps_method"]

\* Line 238 and, when the sync is due, the start of _update_target_network
\* (lines 376-378): load_state_dict copies the parameter tensors one after the
\* other into the target network, whose storage the actor processes share
\* (share_memory, line 176).  learner.i counts the tensors copied so far.
LearnerLoopTop ==
    /\ learner.pc = "top"
    /\ IF SyncDue(learner.steps)
       THEN /\ target_q_network' = [target_q_network EXCEPT ![1] = q_network]
            /\ learner' = [learner EXCEPT
                               !.i = 1,
                               !.pc = IF NumParams = 1 THEN "eps" ELSE "sync"]
            /\ UNCHANGED current_eps
       ELSE /\ PublishEps
            /\ UNCHANGED target_q_network
    /\ UNCHANGED <<cfg, transition_queue, outcome_queue, batch_queue,
                   cur_difficulty_idx, recent_outcomes, q_network, actor, thread,
                   absorbed, drained, emitted, eps_arg, eps_ret,
                   act_arg, act_ret,
                   saved_models, outcome_levels>>

\* Lines 376-378, continued: the next parameter tensor is copied.
LearnerCopyParam ==
    /\ learner.pc = "sync"
    /\ target_q_network' = [target_q_network EXCEPT ![learner.i + 1] = q_network]
    /\ learner' = [learner EXCEPT
                       !.i = @ + 1,
                       !.pc = IF learner.i + 1 = NumParams THEN "eps" ELSE "sync"]
    /\ UNCHANGED <<cfg, transition_queue, outcome_queue, batch_queue,
                   cur_difficulty_idx, current_eps, recent_outcomes, q_network,
                   actor, thread, absorbed, drained, emitted, eps_arg, eps_ret,
                   act_arg, act_ret,
                   saved_models, outcome_levels>>

\* Lines 240-241 after a sync.
LearnerPublishEps ==
    /\ learner.pc = "eps"
    /\ PublishEps
    /\ UNCHANGED <<cfg, transition_queue, outcome_queue, batch_queue,
                   cur_difficulty_idx, recent_outcomes, q_network,
                   target_q_network, actor, thread, absorbed, drained, emitted,
                   eps_arg, eps_ret, act_arg, act_ret,
                   saved_models, outcome_levels>>

\* Lines 318-320: one turn of the drain loop.
LearnerDrainOutcome ==
    /\ learner.pc = "drain"
    /\ GetEnabled(outcome_queue)
    /\ LET outcome == QueueHead(outcome_queue)
       IN  /\ outcome_queue' = QueueRest(outcome_queue)
           /\ recent_outcomes' = DequeAppend(recent_outcomes, outcome, maxlen)
           /\ absorbed' = Append(absorbed, outcome)
           /\ outcome_levels' =
                  [queue |-> QueueRest(outcome_levels.queue),
                   window |-> DequeAppend(outcome_levels.window,
                                          QueueHead(outcome_levels.queue), maxlen)]
    /\ learner' = [learner EXCEPT !.has_new_outcome = TRUE, !.n_absorbed = @ + 1]
    /\ UNCHANGED <<cfg, transition_queue, batch_queue, cur_difficulty_idx,
                   current_eps, q_network, target_q_network, actor, thread,
                   drained, emitted, eps_arg, eps_ret,
                   act_arg, act_ret, saved_models>>

\* WindowAfterAdvance with a seeded fault: the window survives the advance.
WindowAfterAdvance_Kept(outcomes) == outcomes

\* Line 331: self._recent_outcomes.clear()
WindowAfterAdvance(outcomes) == <<>>

\* Lines 318 (queue found empty) and 321-331.
LearnerUpdateDifficulty ==
    /\ learner.pc = "drain"
    /\ ~GetEnabled(outcome_queue)
    /\ IF ShouldAdvance(learner.has_new_outcome, recent_outcomes, cur_difficulty_idx)
       THEN /\ cur_difficulty_idx' = cur_difficulty_idx + 1
            /\ recent_outcomes' = WindowAfterAdvance(recent_outcomes)
            /\ absorbed' = <<>>
            /\ outcome_levels' =
                   [outcome_levels EXCEPT !.window = WindowAfterAdvance(@)]
       ELSE UNCHANGED <<cur_difficulty_idx, recent_outcomes, absorbed,
                        outcome_levels>>
    /\ learner' = [learner EXCEPT !.pc = "optimize"]
    /\ UNCHANGED <<cfg, transition_queue, outcome_queue, batch_queue, current_eps,
                   q_network, target_q_network, actor, thread, drained, emitted,
                   eps_arg, eps_ret,
                   act_arg, act_ret, saved_models>>

\* NextSteps with a seeded fault: a batch counts twice.
NextSteps_Twice(steps) == steps + 2

\* Line 243: steps += 1
NextSteps(steps) == steps + 1

\* File names are sequences of characters.  NoPath stands for None (and for
\* the empty string, which the code's truth tests treat alike).
NoPath == <<>>
Truthy(path) == path # NoPath

DigitChars == <<"0", "1", "2", "3", "4", "5", "6", "7", "8", "9">>

\* '%d' % n, for n >= 0.
RECURSIVE FormatInt(_)
FormatInt(n) ==
    IF n < 10 THEN <<DigitChars[n + 1]>>
    ELSE FormatInt(n \div 10) \o <<DigitChars[(n % 10) + 1]>>

\* int(str), for a non-empty string of digits (anything else raises ValueError
\* in the constructor).
RECURSIVE ParseInt(_)
ParseInt(str) ==
    LET d == CHOOSE v \in 0..9 : DigitChars[v + 1] = str[Len(str)]
    IN  IF Len(str) = 1 THEN d
        ELSE 10 * ParseInt(SubSeq(str, 1, Len(str) - 1)) + d

\* str.rfind(ch) + 1: the position after the last ch, counted from 1; 1 when
\* ch does not occur (rfind gives -1).
AfterLast(str, ch) ==
    LET at == {i \in 1..Len(str) : str[i] = ch}
    IN  IF at = {} THEN 1 ELSE (CHOOSE i \in at : \A j \in at : j <= i) + 1

\* Lines 165 and 177-180: self._episode_idx, 0 or the number after the last
\* '-' of init_model_path.
InitialEpisodeIdx(init_model_path) ==
    IF Truthy(init_model_path)
    THEN ParseInt(SubSeq(init_model_path, AfterLast(init_model_path, "-"),
                         Len(init_model_path)))
    ELSE 0

\* Lines 245-246: os.path.join(save_model_dir, 'agent.model-%d' % steps)
ModelPath(save_model_dir, steps) ==
    save_model_dir \o <<"/">>
        \o <<"a", "g", "e", "n", "t", ".", "m", "o", "d", "e", "l", "-">>
        \o FormatInt(steps)

\* SaveDue with a seeded fault: the step count before the increment is tested.
SaveDue_BeforeIncrement(steps) == (steps - 1) % cfg.save_model_freq = 0

\* Line 244: steps % self._save_model_freq == 0
SaveDue(steps) == steps % cfg.save_model_freq = 0

\* Lines 242-246 with _optimize: one batch is taken (line 265); the loss kind
\* is looked at after that (lines 268-273) and an unrecognised one raises,
\* which ends learn(); otherwise one optimizer step is applied and the step is
\* counted, and the parameters are saved under the new step count when a
\* directory is configured and the save is due.  learner.n_pulled counts the
\* batches taken from the batch queue.
LearnerOptimize ==
    /\ learner.pc = "optimize"
    /\ learner.steps < cfg.max_steps
    /\ GetEnabled(batch_queue)
    /\ batch_queue' = QueueRest(batch_queue)
    /\ IF cfg.loss_type \in LossTypes
       THEN LET steps == NextSteps(learner.steps)
            IN  /\ q_network' = q_network + 1
                /\ learner' = [learner EXCEPT !.steps = steps,
                                              !.n_pulled = @ + 1,
                                              !.pc = "top"]
                /\ saved_models' =
                       IF Truthy(cfg.save_model_dir) /\ SaveDue(steps)
                       THEN Append(saved_models,
                                   ModelPath(cfg.save_model_dir, steps))
                       ELSE saved_models
       ELSE /\ UNCHANGED <<q_network, saved_models>>
            /\ learner' = [learner EXCEPT !.n_pulled = @ + 1,
                                          !.pc = "raised",
                                          !.error = "loss_type"]
    /\ UNCHANGED <<cfg, transition_queue, outcome_queue, cur_difficulty_idx,
                   current_eps, recent_outcomes, target_q_network, actor, thread,
                   absorbed, drained, emitted, eps_arg, eps_ret,
                   act_arg, act_ret, outcome_levels>>

-----------------------------------------------------------------------------
(* Construction and start-up: MCAgent.__init__ and the head of learn().    *)

\* Lines 192-205: the optimizer kind is looked at in the constructor; an
\* unrecognised one raises NotImplementedError there.
Construct ==
    /\ learner.pc = "init"
    /\ learner' = IF cfg.optimizer_type \in OptimizerTypes
                  THEN [learner EXCEPT !.pc = "constructed"]
                  ELSE [learner EXCEPT !.pc = "raised", !.error = "optimizer_type"]
    /\ UNCHANGED <<cfg, transition_queue, outcome_queue, batch_queue,
                   cur_difficulty_idx, current_eps, recent_outcomes, q_network,
                   target_q_network, actor, thread, absorbed, drained, emitted,
                   eps_arg, eps_ret, act_arg, act_ret,
                   saved_models, outcome_levels>>

\* Lines 233-235 with _init_parallel_actors (lines 282-314): the assembler
\* threads and the actor processes are started, then the loop is entered.
Learn ==
    /\ learner.pc = "constructed"
    /\ actor' = [pid \in Actors |-> [actor[pid] EXCEPT !.pc = "start"]]
    /\ thread' = [tid \in Threads |-> [thread[tid] EXCEPT !.pc = "start"]]
    /\ learner' = [learner EXCEPT !.pc = "top"]
    /\ UNCHANGED <<cfg, transition_queue, outcome_queue, batch_queue,
                   cur_difficulty_idx, current_eps, recent_outcomes, q_network,
                   target_q_network, absorbed, drained, emitted,
                   eps_arg, eps_ret, act_arg, act_ret,
                   saved_models, outcome_levels>>

-----------------------------------------------------------------------------
(* The exploration schedule on its own: _get_current_eps(steps).           *)

GetCurrentEps ==
    /\ \E steps \in 0..MaxEpsSteps :
          /\ eps_arg' = steps
          /\ eps_ret' = get_current_eps(steps)
    /\ UNCHANGED <<cfg, transition_queue, outcome_queue, batch_queue,
                   cur_difficulty_idx, current_eps, recent_outcomes, q_network,
                   target_q_network, actor, thread, learner, absorbed, drained,
                   emitted, act_arg, act_ret,
                   saved_models, outcome_levels>>

-----------------------------------------------------------------------------
(* Initial states: the state after MCAgent.__init__ and _init_parallel_actors. *)

BaseConfig ==
    [batch_size |-> 1,
     discount |-> <<1, 1>>,
     optimizer_type |-> "adam",
     loss_type |-> "mse",
     eps_method |-> "linear",
     eps_start |-> <<1, 1>>,
     eps_end |-> <<1, 10>>,
     eps_decay |-> 100,
     eps_decay2 |-> 200,
     memory_size |-> 2 * num_threads,
     init_memory_size |-> num_threads,
     frame_step_ratio |-> <<1, 1>>,
     target_update_freq |-> 2,
     winning_rate_threshold |-> <<1, 2>>,
     difficulties |-> <<"1", "2">>,
     num_actor_workers |-> 2,
     use_curriculum |-> TRUE,
     env_max_frames |-> MaxFrames,
     env_rewards |-> {-1, 1},
     init_model_path |-> NoPath,
     save_model_dir |-> NoPath,
     save_model_freq |-> 2,
     max_episodes |-> MaxEpisodes,
     max_steps |-> MaxSteps]

\* The state in which the actor processes and assembler threads are at
\* worker_pc and the learner at learner_pc.
InitAt(c, worker_pc, learner_pc) ==
    /\ cfg = c
    /\ transition_queue = <<>>
    /\ outcome_queue = <<>>
    /\ batch_queue = <<>>
    /\ cur_difficulty_idx = 0
    /\ current_eps = c.eps_start
    /\ recent_outcomes = <<>>
    /\ q_network = 0
    /\ target_q_network = [i \in 1..NumParams |-> 0]
    /\ actor = [pid \in 0..(c.num_actor_workers - 1) |->
                   [pc |-> worker_pc, episode_id |-> 0, cum_return |-> RInt(0),
                    cur_difficulty |-> None, transitions |-> <<>>, k |-> 0]]
    /\ thread = [tid \in Threads |->
                    [pc |-> worker_pc, memory |-> <<>>, steps |-> 0, remaining |-> 0,
                     batch |-> NoBatch]]
    /\ learner = [pc |-> learner_pc, steps |-> 0, has_new_outcome |-> FALSE,
                  n_absorbed |-> 0, i |-> 0, n_pulled |-> 0, error |-> None,
                  episode_idx |-> InitialEpisodeIdx(c.init_model_path)]
    /\ absorbed = <<>>
    /\ drained = [tid \in Threads |-> <<>>]
    /\ emitted = {}
    /\ eps_arg = -1
    /\ eps_ret = RInt(0)
    /\ act_ret = -1
    /\ saved_models = <<>>
    /\ outcome_levels = [queue |-> <<>>, window |-> <<>>]

\* The state after MCAgent.__init__ and _init_parallel_actors: the workers are
\* started and the learner is at the top of its loop.
InitState(c) == InitAt(c, "start", "top") /\ act_arg = NoCall

\* The state before MCAgent.__init__: nothing is started.
InitUnconstructed(c) == InitAt(c, "unstarted", "init") /\ act_arg = NoCall

\* Runs of the whole pipeline, on transitions that differ only in identity:
\* two actors of one episode each or one actor of several, with replay memories
\* of one or two transitions per thread, warm-up at one or two transitions, and
\* each form of frame_step_ratio; the last has batch_size <= init_memory_size
\* <= memory_size with a batch of two.
PipelineConfigs ==
    LET Two == [BaseConfig EXCEPT !.env_rewards = {1},
                                  !.max_episodes = 1,
                                  !.max_steps = 1]
        One == [BaseConfig EXCEPT !.env_rewards = {1},
                                  !.num_actor_workers = 1]
    IN  {[Two EXCEPT !.memory_size = num_threads + 1,
                     !.init_memory_size = 1],
         [Two EXCEPT !.memory_size = 2 * num_threads + 1,
                     !.init_memory_size = 2 * num_threads,
                     !.batch_size = 2],
         [One EXCEPT !.memory_size = num_threads + 1,
                     !.frame_step_ratio = <<2, 1>>,
                     !.use_curriculum = FALSE],
         [One EXCEPT !.memory_size = num_threads + 1,
                     !.frame_step_ratio = <<1, 2>>],
         [One EXCEPT !.memory_size = num_threads + 1,
                     !.init_memory_size = 1,
                     !.batch_size = 2,
                     !.max_episodes = MaxEpisodes + 1],
         [One EXCEPT !.batch_size = 2]}

\* Runs that exercise the curriculum: one-frame episodes won or lost, a replay
\* memory of one transition per thread, so that every episode yields a batch.
CurriculumConfigs ==
    {[BaseConfig EXCEPT !.env_max_frames = 1,
                        !.memory_size = num_threads,
                        !.num_actor_workers = 1,
                        !.max_episodes = CurriculumEpisodes,
                        !.max_steps = CurriculumSteps,
                        !.winning_rate_threshold = th,
                        !.difficulties = d] :
        th \in {<<1, 2>>, <<1, 1>>},
        d \in {<<"1", "2">>, <<"1", "2", "3">>}}

\* Runs that label one long episode: every reward sequence of up to
\* MaxReturnFrames frames, two discounts, and one learner step.
ReturnConfigs ==
    {[BaseConfig EXCEPT !.env_max_frames = MaxReturnFrames,
                        !.env_rewards = {-1, 0, 1},
                        !.discount = g,
                        !.num_actor_workers = 1,
                        !.max_episodes = 1,
                        !.max_steps = 1,
                        !.memory_size = num_threads] :
        g \in {<<9, 10>>, <<1, 2>>}}

\* Runs from before the constructor, with each of the three kinds recognised
\* or not.
KindConfigs ==
    {[BaseConfig EXCEPT !.env_rewards = {1},
                        !.num_actor_workers = 1,
                        !.max_episodes = 1,
                        !.max_steps = 1,
                        !.memory_size = num_threads,
                        !.optimizer_type = k[1],
                        !.eps_method = k[2],
                        !.loss_type = k[3]] :
        k \in {<<"adam", "linear", "mse">>,
               <<"lbfgs", "linear", "mse">>,
               <<"adam", "cosine", "mse">>,
               <<"adam", "linear", "huber">>}}

\* Runs in which the environment can fail: one or two actors.
FaultConfigs ==
    {[BaseConfig EXCEPT !.env_rewards = {1},
                        !.num_actor_workers = n,
                        !.max_episodes = 3 - n,
                        !.max_steps = 1,
                        !.memory_size = num_threads] : n \in {1, 2}}

\* Runs in which every frame queries the target network (eps = 0, as in
\* bin/eval.py) and every learner iteration syncs it.
TargetConfigs ==
    {[BaseConfig EXCEPT !.env_rewards = {1},
                        !.num_actor_workers = 1,
                        !.max_steps = 1,
                        !.memory_size = num_threads,
                        !.eps_start = RInt(0),
                        !.eps_end = RInt(0),
                        !.target_update_freq = f] : f \in {1, 2}}

\* Runs that write checkpoints: one actor of one-frame episodes, threads that
\* sample twice per transition, with and without a checkpoint directory, two
\* checkpoint intervals, and started afresh or from a checkpoint of step 12.
SaveConfigs ==
    {[BaseConfig EXCEPT !.env_rewards = {1},
                        !.env_max_frames = 1,
                        !.num_actor_workers = 1,
                        !.frame_step_ratio = <<1, 2>>,
                        !.memory_size = num_threads,
                        !.max_steps = MaxSaveSteps,
                        !.save_model_dir = d,
                        !.save_model_freq = f,
                        !.init_model_path = p] :
        d \in {NoPath, <<"d">>},
        f \in {1, 2},
        p \in {NoPath, ModelPath(<<"d", "-", "1">>, 12)}}

\* Runs with a short and a long warm-up: one actor of one-frame episodes that
\* can finish one episode more than the outcome queue holds, and threads that
\* are warm after k transitions each.
WarmupConfigs ==
    {[BaseConfig EXCEPT !.env_rewards = {1},
                        !.env_max_frames = 1,
                        !.num_actor_workers = 1,
                        !.max_episodes = OutcomeQueueSize + 1,
                        !.max_steps = 1,
                        !.memory_size = k * num_threads,
                        !.init_memory_size = k * num_threads] :
        k \in {1, OutcomeQueueSize + 1}}

Init == \E c \in PipelineConfigs : InitState(c)
InitWarmup == \E c \in WarmupConfigs : InitState(c)
InitSave == \E c \in SaveConfigs : InitState(c)
InitTarget == \E c \in TargetConfigs : InitState(c)
InitFault == \E c \in FaultConfigs : InitState(c)
InitKinds == \E c \in KindConfigs : InitUnconstructed(c)
InitReturn == \E c \in ReturnConfigs : InitState(c)
InitCurriculum == \E c \in CurriculumConfigs : InitState(c)
InitEps == InitState(BaseConfig)
InitAct ==
    /\ InitAt(BaseConfig, "start", "top")
    /\ act_arg \in {c \in ActCalls : ~c.has_mask => c.action_mask = NoMask}

ActorNext ==
    \E pid \in Actors :
        \/ ActorStartEpisode(pid)
        \/ ActorStep(pid)
        \/ ActorPutTransition(pid)
        \/ ActorPutOutcome(pid)

ThreadNext ==
    \E tid \in Threads :
        \/ ThreadStart(tid)
        \/ ThreadGet(tid)
        \/ ThreadPutBatch(tid)

LearnerNext ==
    \/ LearnerLoopTop
    \/ LearnerCopyParam
    \/ LearnerPublishEps
    \/ LearnerDrainOutcome
    \/ LearnerUpdateDifficulty
    \/ LearnerOptimize

Next == ActorNext \/ ThreadNext \/ LearnerNext

NextFault == Next \/ \E pid \in Actors : ActorFault(pid)

NextKinds == Construct \/ Learn \/ Next

NextEps == GetCurrentEps

NextAct == Act

Spec == Init /\ [][Next]_vars
SpecCurriculum == InitCurriculum /\ [][Next]_vars
SpecReturn == InitReturn /\ [][Next]_vars
SpecFault == InitFault /\ [][NextFault]_vars
SpecTarget == InitTarget /\ [][Next]_vars
SpecSave == InitSave /\ [][Next]_vars
SpecWarmup == InitWarmup /\ [][Next]_vars
SpecKinds == InitKinds /\ [][NextKinds]_vars
SpecEps == InitEps /\ [][NextEps]_vars
SpecAct == InitAct /\ [][NextAct]_vars

-----------------------------------------------------------------------------
(* Curriculum properties, checked under SpecCurriculum.                    *)

\* C1: the Difficulty Index never decreases and always satisfies
\* 0 <= index <= len(difficulties) - 1.
C1_DifficultyMonotoneBounded ==
    /\ [](cur_difficulty_idx >= 0 /\ cur_difficulty_idx <= Len(cfg.difficulties) - 1)
    /\ [][cur_difficulty_idx' >= cur_difficulty_idx]_vars

\* The index has advanced all the way to the last level.
C1_Witness ==
    /\ cur_difficulty_idx = Len(cfg.difficulties) - 1
    /\ cur_difficulty_idx = 2
    /\ learner.steps > 0

\* The advance condition as the claim words it, on the state in which the drain
\* loop has found the outcome queue empty.
C2_AdvanceCondition ==
    /\ learner.n_absorbed >= 1
    /\ Len(recent_outcomes) = maxlen
    /\ RLe(RMul(RInt(2 * Len(recent_outcomes)), cfg.winning_rate_threshold),
           RAdd(SeqSum(recent_outcomes), RInt(Len(recent_outcomes))))
    /\ cur_difficulty_idx + 1 < Len(cfg.difficulties)

\* C2: one invocation of the curriculum update raises the Difficulty Index by
\* exactly one iff, after the drain, a new outcome was absorbed, the window holds
\* exactly maxlen entries, (mean + 1) / 2 >= threshold and a higher level
\* remains; otherwise the index is unchanged.
C2_AdvanceExactlyWhen ==
    [][IF learner.pc = "drain" /\ learner'.pc = "optimize"
       THEN /\ C2_AdvanceCondition => cur_difficulty_idx' = cur_difficulty_idx + 1
            /\ ~C2_AdvanceCondition => cur_difficulty_idx' = cur_difficulty_idx
       ELSE cur_difficulty_idx' = cur_difficulty_idx]_vars

\* An update has just advanced the index on a window whose win rate equals the
\* threshold.
C2_Witness ==
    /\ learner.pc = "optimize"
    /\ learner.n_absorbed >= 1
    /\ cur_difficulty_idx = 1
    /\ absorbed = <<>>
    /\ cfg.winning_rate_threshold = <<1, 2>>

C3_Slide(window, x) ==
    IF Len(window) < maxlen THEN Append(window, x)
    ELSE SubSeq(Append(window, x), 2, maxlen + 1)

\* C3: the Outcome Window is empty right after every advance, and a step that
\* does not advance the index changes the window only by appending the head of
\* the outcome queue with sliding-window eviction.
C3_ClearedOnlyByAdvance ==
    [][IF cur_difficulty_idx' # cur_difficulty_idx
       THEN recent_outcomes' = <<>>
       ELSE \/ recent_outcomes' = recent_outcomes
            \/ /\ outcome_queue # <<>>
               /\ recent_outcomes' = C3_Slide(recent_outcomes, Head(outcome_queue))]_vars

\* An update at the last level has left a full, threshold-satisfying window in
\* place after an earlier advance had emptied it.
C3_Witness ==
    /\ learner.pc = "optimize"
    /\ learner.n_absorbed >= 1
    /\ cur_difficulty_idx = 1
    /\ Len(cfg.difficulties) = 2
    /\ Len(recent_outcomes) = maxlen
    /\ RLe(cfg.winning_rate_threshold, winning_rate(recent_outcomes))

C4_LastN(s, n) == SubSeq(s, Len(s) - n + 1, Len(s))

\* C4: the Outcome Window holds at most maxlen entries, namely the most recent
\* min(n, maxlen) of the n outcomes absorbed since the last clear, in order.
C4_WindowIsRecentOutcomes ==
    /\ Len(recent_outcomes) <= maxlen
    /\ recent_outcomes =
           C4_LastN(absorbed, IF Len(absorbed) < maxlen THEN Len(absorbed) ELSE maxlen)

\* An outcome has been evicted from a full window.
C4_Witness ==
    /\ Len(absorbed) > maxlen
    /\ Len(recent_outcomes) = maxlen


-----------------------------------------------------------------------------
(* Replay buffer and channel properties, checked under Spec.               *)

C5_Capacity ==
    CHOOSE c \in 0..cfg.memory_size :
        c * num_threads <= cfg.memory_size /\ cfg.memory_size < (c + 1) * num_threads

C5_Observations(memory) == [i \in 1..Len(memory) |-> memory[i].observation]

\* C5: each thread's replay buffer holds at most floor(memory_size / threads)
\* transitions, and they are the most recent ones that thread drained, in
\* drain order.
C5_BufferIsRecentDrained ==
    \A tid \in Threads :
        LET memory == thread[tid].memory
            n == IF Len(drained[tid]) < C5_Capacity
                 THEN Len(drained[tid]) ELSE C5_Capacity
        IN  /\ Len(memory) <= C5_Capacity
            /\ C5_Observations(memory) = C4_LastN(drained[tid], n)

\* A thread has drained more transitions than its buffer holds.
C5_Witness ==
    \E tid \in Threads :
        /\ C5_Capacity >= 1
        /\ Len(drained[tid]) > C5_Capacity
        /\ Len(thread[tid].memory) = C5_Capacity

\* C6: a thread that has drawn a sample (and is putting the batch, or was
\* ended by the draw) holds at least max(init_memory_size, batch_size) /
\* threads transitions.
C6_NoSampleBeforeWarmUp ==
    \A tid \in Threads :
        thread[tid].pc \in {"put", "dead"} =>
            Len(thread[tid].memory) * num_threads >=
                Max(cfg.init_memory_size, cfg.batch_size)

\* One thread holds a transition but is still below the threshold and back at
\* the transition queue, while another has sampled.
C6_Witness ==
    \E t1, t2 \in Threads :
        /\ thread[t1].pc = "get"
        /\ Len(thread[t1].memory) > 0
        /\ Len(thread[t1].memory) * num_threads < Max(cfg.init_memory_size, cfg.batch_size)
        /\ thread[t2].pc = "put"

\* C7: no channel ever holds more than its capacity, and while a channel is
\* full a producer waiting to put on it stays where it is, with its item.
C7_ChannelsBounded ==
    /\ [](/\ Len(transition_queue) <= TransitionQueueSize
          /\ Len(outcome_queue) <= OutcomeQueueSize
          /\ Len(batch_queue) <= BatchQueueSize)
    /\ [][/\ \A pid \in Actors :
               /\ (actor[pid].pc = "label" /\ Len(transition_queue) = TransitionQueueSize)
                      => actor'[pid] = actor[pid]
               /\ (actor[pid].pc = "outcome" /\ Len(outcome_queue) = OutcomeQueueSize)
                      => actor'[pid] = actor[pid]
          /\ \A tid \in Threads :
               (thread[tid].pc = "put" /\ Len(batch_queue) = BatchQueueSize)
                   => thread'[tid] = thread[tid]]_vars

\* An actor waits on the full transition queue while a thread waits on the
\* full batch queue.
C7_Witness ==
    /\ Len(transition_queue) = TransitionQueueSize
    /\ \E pid \in Actors : actor[pid].pc = "label"
    /\ Len(batch_queue) = BatchQueueSize
    /\ \E tid \in Threads : thread[tid].pc = "put"

C8_Count(seq, x) == Cardinality({i \in 1..Len(seq) : seq[i] = x})

RECURSIVE C8_Delivered(_, _)
C8_Delivered(o, tids) ==
    IF tids = {} THEN 0
    ELSE LET tid == CHOOSE t \in tids : TRUE
         IN  C8_Count(drained[tid], o) + C8_Delivered(o, tids \ {tid})

\* C8: every transition an actor has put is either still in the transition
\* queue or has been taken by exactly one thread exactly once, and nothing else
\* is in the queue or in a buffer.
C8_DeliveredExactlyOnce ==
    /\ \A o \in emitted :
           C8_Count(C5_Observations(transition_queue), o) + C8_Delivered(o, Threads) = 1
    /\ \A i \in 1..Len(transition_queue) : transition_queue[i].observation \in emitted
    /\ \A tid \in Threads :
           /\ \A i \in 1..Len(drained[tid]) : drained[tid][i] \in emitted
           /\ \A i, j \in 1..Len(thread[tid].memory) :
                  i # j => thread[tid].memory[i] # thread[tid].memory[j]

\* Both actors have put transitions and two threads have each taken some.
C8_Witness ==
    /\ \E o1, o2 \in emitted : o1[1] # o2[1]
    /\ \E t1, t2 \in Threads :
           /\ t1 # t2
           /\ Len(drained[t1]) >= 1
           /\ Len(drained[t2]) >= 2
    /\ transition_queue = <<>>

-----------------------------------------------------------------------------
(* Return labelling, checked under SpecReturn.                             *)

RECURSIVE C9_Power(_, _)
C9_Power(g, k) == IF k = 0 THEN RInt(1) ELSE RMul(g, C9_Power(g, k - 1))

\* sum over k = 0..T-1-t of g^k * r_{t+k}, for the frames 0..T-1 of `transitions`.
C9_Reference(transitions, g, t) ==
    LET T == Len(transitions)
        RECURSIVE Partial(_)
        Partial(k) ==
            IF k < 0 THEN RInt(0)
            ELSE RAdd(Partial(k - 1),
                      RMul(C9_Power(g, k), RInt(transitions[t + k + 1].reward)))
    IN  Partial(T - 1 - t)

C9_Labelled(item) ==
    LET pid == item.observation[1]
    IN  actor[pid].episode_id = item.observation[2] =>
            item.cum_return =
                C9_Reference(actor[pid].transitions, cfg.discount, item.observation[3])

\* C9: the return attached to the transition of time t of a finished episode is
\* the discounted sum of the rewards from t to the end of the episode.
C9_ReturnIsDiscountedSum ==
    /\ \A i \in 1..Len(transition_queue) : C9_Labelled(transition_queue[i])
    /\ \A tid \in Threads :
           \A i \in 1..Len(thread[tid].memory) : C9_Labelled(thread[tid].memory[i])
    /\ \A pid \in Actors :
           (actor[pid].pc \in {"label", "outcome"} /\ actor[pid].k >= 1) =>
               actor[pid].cum_return =
                   C9_Reference(actor[pid].transitions, cfg.discount,
                                Len(actor[pid].transitions) - actor[pid].k)

\* The first transition of a longest episode without a zero reward has been put.
C9_Witness ==
    \E i \in 1..Len(transition_queue) :
        LET item == transition_queue[i]
            a == actor[item.observation[1]]
        IN  /\ item.observation[3] = 0
            /\ a.pc = "outcome"
            /\ Len(a.transitions) = MaxReturnFrames
            /\ \A t \in 1..Len(a.transitions) : a.transitions[t].reward # 0
            /\ a.transitions[1].reward # a.transitions[2].reward

-----------------------------------------------------------------------------
(* Exploration schedule, checked under SpecEps (start 1.0, end 0.1,        *)
(* eps_decay 100, eps_decay2 200).                                         *)

\* C10: the linear schedule is exactly 1.0 at step 0, exactly 0.1 at step 100,
\* exactly 0.01 from step 200 on, and strictly decreasing on [0, 100] and on
\* [100, 200].
C10_LinearSchedule ==
    /\ [](eps_arg >= 0 =>
            /\ eps_arg = 0 => eps_ret = <<1, 1>>
            /\ eps_arg = 100 => eps_ret = <<1, 10>>
            /\ eps_arg >= 200 => eps_ret = <<1, 100>>)
    /\ [][(/\ eps_arg >= 0
           /\ eps_arg < eps_arg'
           /\ \/ eps_arg' <= 100
              \/ eps_arg >= 100 /\ eps_arg' <= 200)
          => RLt(eps_ret', eps_ret)]_vars

\* The schedule has been evaluated inside its second phase.
C10_Witness ==
    /\ eps_arg = 150
    /\ RLt(eps_ret, <<1, 10>>)
    /\ RLt(<<1, 100>>, eps_ret)
-----------------------------------------------------------------------------
(* Configuration errors, checked under SpecKinds.                          *)

\* C11: an unrecognised optimizer kind, exploration-schedule kind or loss kind
\* is raised at construction: when the error is raised no actor process and no
\* assembler thread has been started and no batch has been pulled.
C11_KindErrorsAtConstruction ==
    learner.error # None =>
        /\ \A pid \in Actors : actor[pid].pc = "unstarted"
        /\ \A tid \in Threads : thread[tid].pc = "unstarted"
        /\ learner.n_pulled = 0

-----------------------------------------------------------------------------
(* Faults inside an episode, checked under SpecFault.                      *)

\* C12: a fault raised inside one episode of an actor worker (environment
\* creation, reset, step or action selection) does not end the worker process:
\* no actor process is ever terminated.
C12_FaultDoesNotEndWorker == \A pid \in Actors : actor[pid].pc # "dead"

-----------------------------------------------------------------------------
(* The target network as the actors read it, checked under SpecTarget.     *)

\* All parameter tensors of the target network come from one snapshot.
C13_OneSnapshot(target) == \A i, j \in 1..NumParams : target[i] = target[j]

\* A frame of actor pid in which act queries the target network, whatever
\* number is drawn (every draw exploits at the published exploration rate).
C13_Query(pid) ==
    /\ actor[pid].pc = "step"
    /\ actor'[pid] # actor[pid]
    /\ \A u \in UniformDraws : Exploits(current_eps, u)

\* C13: under every interleaving of the target sync with the actors'
\* action-value queries, a query never reads a target network whose parameters
\* are partly those of the old snapshot and partly those of the new one.
C13_QueryNeverSeesMixedTarget ==
    [][\A pid \in Actors : C13_Query(pid) => C13_OneSnapshot(target_q_network)]_vars

-----------------------------------------------------------------------------
(* The learner's step counter, checked under Spec.                         *)

\* C14: the step counter starts at 0, never decreases, and goes up by exactly
\* one for each batch removed from the batch queue: it is the number of
\* batches the learner has taken and applied an optimizer step on, and it never
\* goes up without a batch being taken.
C14_StepsCountBatches ==
    /\ learner.steps = 0
    /\ [](learner.steps = q_network)
    /\ [][/\ learner'.steps \in {learner.steps, learner.steps + 1}
          /\ learner'.steps = learner.steps + 1 =>
                 /\ batch_queue # <<>>
                 /\ batch_queue' = Tail(batch_queue)
          /\ Len(batch_queue') < Len(batch_queue) =>
                 learner'.steps = learner.steps + 1]_vars

\* Two batches have been taken and counted.
C14_Witness == learner.steps = 2 /\ learner.n_pulled = 2 /\ learner.pc = "top"

-----------------------------------------------------------------------------
(* Progress of the assembler threads, checked under Spec.                  *)

\* C15: with batch size <= warm-up <= memory size (as with two actors, memory
\* size 100, warm-up 20 and batch size 8) the batch queue eventually yields a
\* batch and the learner eventually completes a step; in particular no
\* assembler thread ever stops for good.
C15_NoThreadStops ==
    (cfg.batch_size <= cfg.init_memory_size /\ cfg.init_memory_size <= cfg.memory_size)
        => \A tid \in Threads : thread[tid].pc # "dead"

-----------------------------------------------------------------------------
(* Contents of the batches, checked under Spec.                            *)

\* Row i of a batch.
C16_Row(batch, i) ==
    [observation |-> batch.obs_batch[i], action |-> batch.action_batch[i],
     cum_return |-> batch.value_batch[i]]

\* The batch has batch_size rows in each of its three columns.
C16_Sized(batch) ==
    /\ Len(batch.obs_batch) = cfg.batch_size
    /\ Len(batch.action_batch) = cfg.batch_size
    /\ Len(batch.value_batch) = cfg.batch_size

\* The rows of the batch are the entries at pairwise distinct positions of memory.
C16_FromDistinctPositions(batch, memory) ==
    \E p \in [1..cfg.batch_size -> 1..Len(memory)] :
        /\ \A i, j \in 1..cfg.batch_size : i # j => p[i] # p[j]
        /\ \A i \in 1..cfg.batch_size : C16_Row(batch, i) = memory[p[i]]

\* C16: every batch put on the batch queue consists of exactly batch_size
\* transitions taken from pairwise distinct positions of the replay memory of
\* the thread that sampled it (which the thread, blocked in the put, has not
\* changed since), and every transition in a batch was put on the transition
\* queue by an actor before.
C16_BatchesAreSamples ==
    /\ \A tid \in Threads :
          thread[tid].pc = "put" =>
              /\ C16_Sized(thread[tid].batch)
              /\ C16_FromDistinctPositions(thread[tid].batch, thread[tid].memory)
    /\ \A n \in 1..Len(batch_queue) :
          /\ C16_Sized(batch_queue[n])
          /\ \A i \in 1..cfg.batch_size : batch_queue[n].obs_batch[i] \in emitted
          /\ \A i, j \in 1..cfg.batch_size :
                 i # j => C16_Row(batch_queue[n], i) # C16_Row(batch_queue[n], j)

\* A batch of two transitions is on the batch queue while a thread waits to
\* put another one.
C16_Witness ==
    /\ cfg.batch_size = 2
    /\ batch_queue # <<>>
    /\ \E tid \in Threads : thread[tid].pc = "put"

-----------------------------------------------------------------------------
(* Order of an episode's puts, checked under SpecReturn.                   *)

\* The observations of the frames of actor pid's current episode.
C17_Frames(pid) ==
    {<<pid, actor[pid].episode_id, t>> : t \in 0..(Len(actor[pid].transitions) - 1)}

\* C17: for every finished episode the actor puts all its T transitions on
\* the transition queue before it puts the outcome; each episode gets exactly
\* one outcome; and the outcome equals the return attached to the transition
\* of time 0, which is the last one put.
C17_OutcomeAfterTransitions ==
    /\ [](\A pid \in Actors :
             actor[pid].pc = "outcome" => C17_Frames(pid) \subseteq emitted)
    /\ [][\A pid \in Actors :
             /\ (actor[pid].pc = "label" /\ actor'[pid].pc = "outcome") =>
                    LET item == transition_queue'[Len(transition_queue')]
                    IN  /\ item.observation = <<pid, actor[pid].episode_id, 0>>
                        /\ item.cum_return = actor'[pid].cum_return
             /\ (actor[pid].pc = "outcome" /\ actor'[pid].pc # "outcome") =>
                    /\ outcome_queue' = Append(outcome_queue, actor[pid].cum_return)
                    /\ actor'[pid].pc = "start"
             /\ actor'[pid].episode_id # actor[pid].episode_id =>
                    /\ actor[pid].pc = "start"
                    /\ outcome_queue' = outcome_queue]_vars
    /\ [][Len(outcome_queue') > Len(outcome_queue) =>
             \E pid \in Actors : actor[pid].pc = "outcome" /\ actor'[pid].pc = "start"]_vars

\* The outcome of an episode of several frames with a non-zero return has been
\* put, after all its transitions.
C17_Witness ==
    \E pid \in Actors :
        /\ actor[pid].pc = "start"
        /\ actor[pid].episode_id = 1
        /\ Len(actor[pid].transitions) = MaxReturnFrames
        /\ actor[pid].cum_return # RInt(0)
        /\ actor[pid].transitions[1].reward = 0

-----------------------------------------------------------------------------
(* Target synchronisation, checked under Spec.                             *)

\* The last iteration up to iteration s whose step count is a multiple of the
\* target-update interval.
C18_LastSync(s) == s - (s % cfg.target_update_freq)

\* Every parameter tensor of the target network holds version v.
C18_TargetIs(v) == \A i \in 1..NumParams : target_q_network[i] = v

\* C18: in the learner iteration with step count s the target network is
\* overwritten with the trainable parameters exactly when s is a multiple of
\* the target-update interval (s = 0 included), before the batch of that
\* iteration is pulled; otherwise the learner leaves it alone, so that outside
\* a sync it holds the trainable parameters as they were at the latest sync.
C18_TargetSyncedEveryInterval ==
    /\ [](/\ learner.pc \in {"eps", "drain", "optimize"} =>
                 C18_TargetIs(C18_LastSync(learner.steps))
          /\ learner.pc = "top" =>
                 C18_TargetIs(IF learner.steps = 0 THEN 0
                              ELSE C18_LastSync(learner.steps - 1))
          /\ learner.pc = "sync" =>
                 /\ learner.steps % cfg.target_update_freq = 0
                 /\ \A i \in 1..learner.i : target_q_network[i] = q_network)
    /\ [][target_q_network' # target_q_network =>
              /\ learner.pc \in {"top", "sync"}
              /\ learner.steps % cfg.target_update_freq = 0
              /\ learner.n_pulled = learner.steps
              /\ UNCHANGED <<q_network, batch_queue>>]_vars

\* After the sync of iteration 2 the target network holds the parameters of
\* two optimizer steps; the batch of the iteration is not pulled yet.
C18_Witness ==
    /\ learner.steps = 2
    /\ learner.pc = "optimize"
    /\ C18_TargetIs(2)
    /\ learner.n_pulled = 2

-----------------------------------------------------------------------------
(* Writers of the shared scalars, checked under SpecCurriculum.            *)

\* C19: the exploration rate is written only by the learner loop and the
\* difficulty index only by the curriculum update: every step of an actor
\* process or of an assembler thread leaves both unchanged.
C19_SharedScalarsWrittenByLearner ==
    /\ [][(actor' # actor \/ thread' # thread) =>
              UNCHANGED <<current_eps, cur_difficulty_idx>>]_vars
    /\ [][current_eps' # current_eps =>
              (learner.pc \in {"top", "eps"} /\ learner'.pc = "drain")]_vars
    /\ [][cur_difficulty_idx' # cur_difficulty_idx =>
              (learner.pc = "drain" /\ learner'.pc = "optimize")]_vars

\* Both scalars have been written while the actor played several episodes and
\* the threads took transitions.
C19_Witness ==
    /\ cur_difficulty_idx >= 1
    /\ current_eps # cfg.eps_start
    /\ \E pid \in Actors : actor[pid].episode_id >= 3 /\ actor[pid].pc = "step"
    /\ \A tid \in Threads : thread[tid].memory # <<>>

-----------------------------------------------------------------------------
(* Action selection, checked under SpecAct.                                *)

\* C20: when the action space is maskable and the mask of the observation
\* marks at least one action valid, the action act returns is valid, on the
\* exploitation branch (arg-max after the invalid actions are set to -inf) and
\* on the exploration branch (a draw among the valid actions), for every
\* exploration rate in [0, 1].
C20_ChosenActionIsValid ==
    (act_ret # -1 /\ act_arg.has_mask /\ Nonzero(act_arg.action_mask) # {})
        => act_arg.action_mask[act_ret] = 1

\* An exploiting call returned a valid action although an invalid one had a
\* larger action-value.
C20_Witness ==
    /\ act_ret # -1
    /\ act_arg.has_mask
    /\ Exploits(act_arg.eps, act_arg.u)
    /\ act_arg.eps = Rat(1, 2)
    /\ act_arg.action_mask[act_ret] = 1
    /\ \E a \in Actions : act_arg.action_mask[a] = 0 /\ act_arg.q[a] > act_arg.q[act_ret]

-----------------------------------------------------------------------------
(* Checkpoints, checked under SpecSave.                                    *)

\* The step count in the name of a checkpoint: the number after its last '-'.
C21_Tag(path) == ParseInt(SubSeq(path, AfterLast(path, "-"), Len(path)))

\* C21: when a checkpoint directory is configured the learner writes a
\* checkpoint exactly when its step count, after the increment of an
\* iteration, is a positive multiple of the checkpoint interval; the
\* checkpoint is named after that step count, an iteration writes at most one,
\* and the step counts in the names written in one run increase strictly.
\* Without a directory nothing is written.
C21_CheckpointAtEveryInterval ==
    /\ [](/\ Len(saved_models) =
                 (IF Truthy(cfg.save_model_dir)
                  THEN learner.steps \div cfg.save_model_freq ELSE 0)
          /\ \A n \in 1..Len(saved_models) :
                 /\ C21_Tag(saved_models[n]) = n * cfg.save_model_freq
                 /\ SubSeq(saved_models[n], 1, Len(cfg.save_model_dir))
                        = cfg.save_model_dir)
    /\ [][/\ Len(saved_models') <= Len(saved_models) + 1
          /\ saved_models' # saved_models =>
                 /\ learner'.steps = learner.steps + 1
                 /\ saved_models' =
                        Append(saved_models, saved_models'[Len(saved_models')])
                 /\ C21_Tag(saved_models'[Len(saved_models')]) = learner'.steps]_vars

\* Two checkpoints have been written at interval 2, and an iteration in
\* between wrote none.
C21_Witness ==
    /\ cfg.save_model_freq = 2
    /\ Len(saved_models) = 2
    /\ learner.steps = 4

\* The step count in the name of the checkpoint the run was started from.
C22_ResumedFrom == InitialEpisodeIdx(cfg.init_model_path)

\* C22: when the agent is constructed with an initial checkpoint whose name
\* ends in N, the learner loop's step count continues from N: once the loop
\* runs the step count is at least N, and every checkpoint written after the
\* resume is named after a step count greater than N.
C22_StepCountResumed ==
    Truthy(cfg.init_model_path) =>
        /\ learner.pc \in {"drain", "optimize"} => learner.steps >= C22_ResumedFrom
        /\ \A n \in 1..Len(saved_models) :
               C21_Tag(saved_models[n]) > C22_ResumedFrom

-----------------------------------------------------------------------------
(* Sampling, checked under Spec.                                           *)

\* C23: whenever an assembler thread draws a sample its replay memory holds at
\* least batch_size transitions, for every memory_size, init_memory_size and
\* batch_size the constructor accepts: the sampling never fails and never
\* ends the thread.
C23_SampleNeverFails ==
    \A tid \in Threads :
        /\ thread[tid].pc # "dead"
        /\ thread[tid].pc = "put" => Len(thread[tid].memory) >= cfg.batch_size

-----------------------------------------------------------------------------
(* Blocking, checked under SpecWarmup.                                     *)

\* The actor waits in a put on a full queue.
C24_ActorBlocked(pid) ==
    \/ actor[pid].pc = "label" /\ Len(transition_queue) = TransitionQueueSize
    \/ actor[pid].pc = "outcome" /\ Len(outcome_queue) = OutcomeQueueSize

\* The thread waits in a get on the empty transition queue or in a put on the
\* full batch queue.
C24_ThreadBlocked(tid) ==
    \/ thread[tid].pc = "get" /\ transition_queue = <<>>
    \/ thread[tid].pc = "put" /\ Len(batch_queue) = BatchQueueSize

\* The learner waits in _optimize for a batch.
C24_LearnerBlocked == learner.pc = "optimize" /\ batch_queue = <<>>

\* C24: the pipeline never reaches a global deadlock, a state in which every
\* actor is blocked on a full transition or outcome queue, every assembler
\* thread on the empty transition queue or the full batch queue, and the
\* learner on the empty batch queue; also not while the threads warm up and
\* the learner, waiting for its first batch, does not drain the outcome queue.
C24_NoGlobalDeadlock ==
    ~ /\ \A pid \in Actors : C24_ActorBlocked(pid)
      /\ \A tid \in Threads : C24_ThreadBlocked(tid)
      /\ C24_LearnerBlocked

-----------------------------------------------------------------------------
(* The published exploration rate, checked under Spec.                     *)

\* C25: in every reachable state the published exploration rate is the
\* schedule's value for the learner's step count or for the step count minus
\* one: it is eps_start, the schedule's value for 0, from construction until
\* the first step completes, and the value for step count s is published
\* before the batch of iteration s is pulled.
C25_PublishedEpsFollowsSteps ==
    /\ [](/\ get_current_eps(0) = cfg.eps_start
          /\ current_eps \in {get_current_eps(learner.steps),
                              get_current_eps(IF learner.steps = 0
                                              THEN 0 ELSE learner.steps - 1)}
          /\ learner.steps = 0 => current_eps = cfg.eps_start
          /\ learner.pc \in {"drain", "optimize"}
                 => current_eps = get_current_eps(learner.steps))
    /\ [][learner'.n_pulled # learner.n_pulled
              => /\ learner.n_pulled = learner.steps
                 /\ current_eps = get_current_eps(learner.steps)
                 /\ current_eps' = current_eps]_vars

\* The rate for step count 2 is published, distinct from the rate for step
\* count 1, and the learner waits for the batch of that iteration.
C25_Witness ==
    /\ learner.steps = 2
    /\ learner.pc = "optimize"
    /\ current_eps = get_current_eps(2)
    /\ current_eps # get_current_eps(1)

-----------------------------------------------------------------------------
(* Levels of the counted outcomes, checked under SpecCurriculum.           *)

\* C26: in curriculum mode every outcome held in the outcome window was
\* produced by an episode played at the current difficulty index; after an
\* advance, outcomes of episodes that started at the previous level are not
\* counted toward the win rate of the new level.
C26_WindowHoldsCurrentLevel ==
    cfg.use_curriculum =>
        /\ Len(outcome_levels.window) = Len(recent_outcomes)
        /\ \A i \in 1..Len(outcome_levels.window) :
               outcome_levels.window[i] = cfg.difficulties[cur_difficulty_idx + 1]

====
